---- MODULE Spec2Model ----
(***************************************************************************)
(* A model of mark-rs: the styled terminal buffer (src/terminal/buffer.rs) *)
(* and the style algebra it renders with (src/style/mod.rs, flags.rs).     *)
(*                                                                         *)
(* Strings are sequences of one-character strings; the character 0x1B is   *)
(* written "ESC" and the line break "\n".  An Option is a sequence of      *)
(* length 0 (None) or 1 (Some).                                            *)
(***************************************************************************)
EXTENDS Integers, Sequences, FiniteSets, TLC

VARIABLES
    buffer,     \* TerminalBuffer.buffer: Vec<Vec<Character>>
    styles,     \* TerminalBuffer.styles: HashMap<u64, MappedStyle>
    out,        \* what the last call of Display::fmt wrote (a list of writes)
    last,       \* the operation that ran last and how it ended
    arg,        \* the argument of a function of the style module applied on its own
    ret         \* what that function returned (None before the call)

vars == <<buffer, styles, out, last, arg, ret>>

(***************************************************************************)
(* Bounds of the model.                                                    *)
(***************************************************************************)
MaxCells == 2       \* cells in the whole grid
MaxLines == 2       \* lines in the grid
MaxRefs == 2        \* reference count of one style entry

None == <<>>
Some(v) == <<v>>
IsSome(o) == Len(o) = 1
Unwrap(o) == o[1]

ESC == "ESC"
NL == "\n"

(***************************************************************************)
(* String helpers: decimal formatting ({} of an integer) and Vec::join.    *)
(***************************************************************************)
Digit(d) == <<"0", "1", "2", "3", "4", "5", "6", "7", "8", "9">>[d + 1]

RECURSIVE Dec(_)
Dec(n) == IF n < 10 THEN <<Digit(n)>> ELSE Dec(n \div 10) \o <<Digit(n % 10)>>

RECURSIVE Join(_, _)
Join(parts, sep) ==
    IF Len(parts) = 0 THEN <<>>
    ELSE IF Len(parts) = 1 THEN parts[1]
    ELSE parts[1] \o sep \o Join(Tail(parts), sep)

(***************************************************************************)
(* StyleFlag (src/style/flags.rs)                                          *)
(***************************************************************************)
BOLD == 1
ITALIC == 2
UNDERLINE == 4
CROSSED == 8
BLINK == 16
REVERSED == 32
RESET == 64

\* `*self & FLAG == FLAG` for a one-bit FLAG
HasFlag(flags, flag) == (flags \div flag) % 2 = 1

FlagAnsi(flags) ==
    Join(  (IF HasFlag(flags, BOLD) THEN << <<"1">> >> ELSE <<>>)
        \o (IF HasFlag(flags, ITALIC) THEN << <<"3">> >> ELSE <<>>)
        \o (IF HasFlag(flags, UNDERLINE) THEN << <<"4">> >> ELSE <<>>)
        \o (IF HasFlag(flags, CROSSED) THEN << <<"9">> >> ELSE <<>>)
        \o (IF HasFlag(flags, BLINK) THEN << <<"5">> >> ELSE <<>>)
        \o (IF HasFlag(flags, REVERSED) THEN << <<"7">> >> ELSE <<>>),
        <<";">>)

FlagResetAnsi(flags) ==
    IF HasFlag(flags, RESET) THEN <<"0">>
    ELSE Join(  (IF HasFlag(flags, BOLD) THEN << <<"2", "2">> >> ELSE <<>>)
             \o (IF HasFlag(flags, ITALIC) THEN << <<"2", "3">> >> ELSE <<>>)
             \o (IF HasFlag(flags, UNDERLINE) THEN << <<"2", "4">> >> ELSE <<>>)
             \o (IF HasFlag(flags, CROSSED) THEN << <<"2", "9">> >> ELSE <<>>)
             \o (IF HasFlag(flags, BLINK) THEN << <<"2", "5">> >> ELSE <<>>)
             \o (IF HasFlag(flags, REVERSED) THEN << <<"2", "7">> >> ELSE <<>>),
             <<";">>)

(***************************************************************************)
(* Color (src/style/mod.rs)                                                *)
(***************************************************************************)
System(n) == [kind |-> "System", n |-> n]      \* BLACK = 0 .. WHITE = 7
Ansi(v) == [kind |-> "Ansi", v |-> v]
RGB(r, g, b) == [kind |-> "RGB", r |-> r, g |-> g, b |-> b]
RED == System(1)

SystemColorAnsi(sys) == <<Digit(sys.n)>>

ColorAnsi(c) ==
    CASE c.kind = "System" -> SystemColorAnsi(c)
      [] c.kind = "Ansi" -> <<"8", ";", "5", ";">> \o Dec(c.v)
      [] c.kind = "RGB" ->
            <<"8", ";", "2", ";">> \o Dec(c.r) \o <<";">> \o Dec(c.g)
                \o <<";">> \o Dec(c.b)

ColorResetAnsi(c) == <<"9">>

Fg(c) == <<"3">> \o ColorAnsi(c)
Bg(c) == <<"4">> \o ColorAnsi(c)
ResetFg(c) == <<"3">> \o ColorResetAnsi(c)
ResetBg(c) == <<"4">> \o ColorResetAnsi(c)

(***************************************************************************)
(* Hyperlink and Style (src/style/mod.rs)                                  *)
(***************************************************************************)
HyperlinkSequence(url) == <<ESC, "]", "8", ";", ";">> \o url \o <<ESC, "\\">>
HyperlinkResetSequence(url) == <<ESC, "]", "8", ";", ";", ESC, "\\">>

Style(flags, fg, bg, link) == [flags |-> flags, fg |-> fg, bg |-> bg, link |-> link]

StyleAnsi(s) ==
    Join(  (IF s.flags > 0 THEN <<FlagAnsi(s.flags)>> ELSE <<>>)
        \o (IF IsSome(s.fg) THEN <<Fg(Unwrap(s.fg))>> ELSE <<>>)
        \o (IF IsSome(s.bg) THEN <<Bg(Unwrap(s.bg))>> ELSE <<>>),
        <<";">>)

StyleResetAnsi(s) ==
    IF HasFlag(s.flags, RESET) THEN <<ESC, "[", "0", "m">>
    ELSE Join(  (IF IsSome(s.fg) THEN <<ResetFg(Unwrap(s.fg))>> ELSE <<>>)
             \o (IF IsSome(s.bg) THEN <<ResetBg(Unwrap(s.bg))>> ELSE <<>>)
             \o (IF s.flags > 0 THEN <<FlagResetAnsi(s.flags)>> ELSE <<>>),
             <<";">>)

StyleSequence(s) ==
    (IF IsSome(s.link) THEN HyperlinkSequence(Unwrap(s.link)) ELSE <<>>)
        \o <<ESC, "[">> \o StyleAnsi(s) \o <<"m">>

StyleResetSequence(s) ==
    <<ESC, "[">> \o StyleResetAnsi(s) \o <<"m">>
        \o (IF IsSome(s.link) THEN HyperlinkResetSequence(Unwrap(s.link)) ELSE <<>>)

\* Style::default(): no flags, no colours, no link
DefaultStyle == Style(0, None, None, None)

\* the styles the buffer is written with
BoldRed == Style(BOLD, Some(RED), None, None)
Bold == Style(BOLD, None, None, None)
Underline == Style(UNDERLINE, None, None, None)
Styles == {BoldRed, Bold, Underline}

(***************************************************************************)
(* Style::hash_key, Style::default and Style's equality are used by        *)
(* buffer.rs and defined in no file of src/.  Equality is equality of the  *)
(* four fields; the key is a hash of the four fields into a key space that *)
(* is smaller than the set of styles, as u64 is for Style, so that two     *)
(* styles can share a key (here Bold and Underline).                       *)
(***************************************************************************)
KeySpace == 3

ColorCode(c) ==
    CASE c.kind = "System" -> 1 + c.n
      [] c.kind = "Ansi" -> 9 + c.v
      [] c.kind = "RGB" -> 265 + c.r + 3 * c.g + 5 * c.b

StyleCode(s) ==
    s.flags
        + 128 * (IF IsSome(s.fg) THEN ColorCode(Unwrap(s.fg)) ELSE 0)
        + 131 * (IF IsSome(s.bg) THEN ColorCode(Unwrap(s.bg)) ELSE 0)
        + 137 * (IF IsSome(s.link) THEN 1 + Len(Unwrap(s.link)) ELSE 0)

HashKey(s) == StyleCode(s) % KeySpace

(***************************************************************************)
(* Character, MappedStyle (src/terminal/buffer.rs)                         *)
(***************************************************************************)
Character(style, c) == [style |-> style, character |-> c]

MappedStyle(style, refs) == [style |-> style, refs |-> refs]

Increment(ms) == [ms EXCEPT !.refs = @ + 1]

\* decrement that tests the count it found, not the count it leaves
DecrementEarly(ms) ==
    [ms |-> [ms EXCEPT !.refs = IF @ > 0 THEN @ - 1 ELSE @], zero |-> ms.refs = 0]

\* the entry after decrement, and the value decrement returns
Decrement(ms) ==
    LET refs == IF ms.refs > 0 THEN ms.refs - 1 ELSE ms.refs
    IN  [ms |-> [ms EXCEPT !.refs = refs], zero |-> refs = 0]

(***************************************************************************)
(* TerminalBuffer (src/terminal/buffer.rs)                                 *)
(***************************************************************************)
NewBuffer == << <<>> >>
NewStyles == [k \in {} |-> MappedStyle(DefaultStyle, 0)]

\* HashMap::insert
Insert(tbl, key, ms) ==
    [k \in DOMAIN tbl \cup {key} |-> IF k = key THEN ms ELSE tbl[k]]

\* the loop without `last = self.buffer.last_mut()` after a line break: the
\* lines are added, the characters all go to the line that was last
PushCharsStale(buf, chars, style) ==
    LET kept == SelectSeq(chars, LAMBDA c : c # NL)
        cells == [i \in 1..Len(kept) |-> Character(style, kept[i])]
        added == [i \in 1..(Len(chars) - Len(kept)) |-> <<>>]
    IN  [buf EXCEPT ![Len(buf)] = @ \o cells] \o added

\* the loop of push and push_styled over chunk.to_string().chars()
RECURSIVE PushChars(_, _, _)
PushChars(buf, chars, style) ==
    IF Len(chars) = 0 THEN buf
    ELSE IF Head(chars) = NL
         THEN PushChars(Append(buf, <<>>), Tail(chars), style)
         ELSE PushChars([buf EXCEPT ![Len(buf)] = Append(@, Character(style, Head(chars)))],
                        Tail(chars), style)

\* Intern without the insert of a style seen for the first time
InternForgets(tbl, style) ==
    LET key == HashKey(style)
    IN  IF key \in DOMAIN tbl THEN [tbl EXCEPT ![key] = Increment(@)] ELSE tbl

\* Intern without the increment of a style already in the table
InternKeepsCount(tbl, style) ==
    LET key == HashKey(style)
    IN  IF key \in DOMAIN tbl THEN tbl ELSE Insert(tbl, key, MappedStyle(style, 1))

\* the first statement of push_styled: count the style in the table
Intern(tbl, style) ==
    LET key == HashKey(style)
    IN  IF key \in DOMAIN tbl
        THEN [tbl EXCEPT ![key] = Increment(@)]
        ELSE Insert(tbl, key, MappedStyle(style, 1))

RECURSIVE SumLens(_)
SumLens(buf) == IF Len(buf) = 0 THEN 0 ELSE Len(Head(buf)) + SumLens(Tail(buf))

CellCount(buf) == SumLens(buf)

\* the chunks appended: every string of up to two of Chars and the line break
Chars == {"a", "b"}
RECURSIVE TextsOfLen(_)
TextsOfLen(n) ==
    IF n = 0 THEN {<<>>}
    ELSE {Append(t, c) : t \in TextsOfLen(n - 1), c \in Chars \cup {NL}}
Texts == UNION {TextsOfLen(n) : n \in 0..2}
\* the chunks appended with a style: those of Texts without "b"
StyledTexts == {t \in Texts : \A i \in 1..Len(t) : t[i] # "b"}

(***************************************************************************)
(* ReplaceRange and its seven implementations                              *)
(***************************************************************************)
\* usize::MAX: above every index the model writes
UsizeMax == 2147483647

Index(n) == [form |-> "usize", n |-> n]
Range(a, b) == [form |-> "Range", start |-> a, end |-> b]
RangeTo(b) == [form |-> "RangeTo", end |-> b]
RangeFrom(a) == [form |-> "RangeFrom", start |-> a]
RangeFull == [form |-> "RangeFull"]
RangeToInclusive(b) == [form |-> "RangeToInclusive", end |-> b]
RangeInclusive(a, b) == [form |-> "RangeInclusive", start |-> a, end |-> b]

Start(r) ==
    CASE r.form = "usize" -> r.n
      [] r.form = "RangeFull" -> 0
      [] r.form = "Range" -> r.start
      [] r.form = "RangeTo" -> 0
      [] r.form = "RangeFrom" -> r.start
      [] r.form = "RangeToInclusive" -> 0
      [] r.form = "RangeInclusive" -> r.start

End(r) ==
    CASE r.form = "usize" -> r.n + 1
      [] r.form = "RangeFull" -> UsizeMax
      [] r.form = "Range" -> r.end
      [] r.form = "RangeTo" -> r.end
      [] r.form = "RangeFrom" -> UsizeMax
      [] r.form = "RangeToInclusive" -> r.end + 1
      [] r.form = "RangeInclusive" -> r.end

EndBounded(r, max) == IF End(r) < max THEN End(r) ELSE max

\* the ranges replace is called with: every form for the lines, a..b for the
\* columns, over indices that fall before, on and after the end of a grid of
\* one or two lines and of a line of one or two cells
Indices == 0..2
ColumnRanges == {Range(a, b) : a \in Indices, b \in Indices}
LineRanges ==
    {Index(n) : n \in Indices}
        \cup {Range(a, b) : a \in Indices, b \in Indices}
        \cup {RangeFull, RangeTo(1), RangeFrom(0), RangeToInclusive(0),
              RangeInclusive(0, 1)}

\* the text replace is called with
ReplaceTexts == {<<"b", NL, "a">>}

\* the four checks replace opens with, in order: what the call panics with, or "ok"
ReplaceCheck(buf, lines, columns) ==
    IF Start(lines) >= Len(buf) \/ End(lines) >= Len(buf) THEN "line out of bounds"
    ELSE IF Start(lines) > End(lines) THEN "invalid line range"
    ELSE IF Start(columns) >= Len(buf[Start(lines) + 1]) THEN "column out of bounds"
    ELSE IF Start(columns) > End(columns) THEN "invalid column range"
    ELSE "ok"

(***************************************************************************)
(* impl Display for TerminalBuffer.  What fmt writes is kept as the list   *)
(* of its writes: a push_str of a reset sequence, a push_str of a set      *)
(* sequence, a push of a character, and the "\n" that join puts between    *)
(* two lines.  The text written is the concatenation of the writes' texts. *)
(***************************************************************************)
WReset(style) == [kind |-> "reset", style |-> Some(style), text |-> StyleResetSequence(style)]
WSet(style) == [kind |-> "set", style |-> Some(style), text |-> StyleSequence(style)]
WChar(c) == [kind |-> "char", style |-> None, text |-> <<c>>]
WJoin == [kind |-> "join", style |-> None, text |-> <<NL>>]

\* the match on character.style; get(&key).unwrap() panics on a key not in the table
CanResolve(tbl, character) ==
    IsSome(character.style) => Unwrap(character.style) \in DOMAIN tbl
Resolve(tbl, character) ==
    IF IsSome(character.style) THEN tbl[Unwrap(character.style)].style
    ELSE DefaultStyle

\* the inner loop without the test `curr_style != style`
RECURSIVE RenderLineEveryCell(_, _, _, _)
RenderLineEveryCell(tbl, line, curr, acc) ==
    IF Len(line) = 0 THEN [writes |-> acc, curr |-> curr]
    ELSE LET style == Resolve(tbl, Head(line))
         IN  RenderLineEveryCell(tbl, Tail(line), style,
                 acc \o <<WReset(curr), WSet(style), WChar(Head(line).character)>>)

\* the inner loop: the line_buffer of one line and curr_style after it
RECURSIVE RenderLine(_, _, _, _)
RenderLine(tbl, line, curr, acc) ==
    IF Len(line) = 0 THEN [writes |-> acc, curr |-> curr]
    ELSE LET style == Resolve(tbl, Head(line))
         IN  IF curr # style
             THEN RenderLine(tbl, Tail(line), style,
                             acc \o <<WReset(curr), WSet(style), WChar(Head(line).character)>>)
             ELSE RenderLine(tbl, Tail(line), curr,
                             Append(acc, WChar(Head(line).character)))

\* the outer loop: the line buffers and curr_style after the last line
RECURSIVE RenderLines(_, _, _, _)
RenderLines(tbl, lines, curr, acc) ==
    IF Len(lines) = 0 THEN [buffer |-> acc, curr |-> curr]
    ELSE LET r == RenderLine(tbl, Head(lines), curr, <<>>)
         IN  RenderLines(tbl, Tail(lines), r.curr, Append(acc, r.writes))

\* fmt: the loops, the last reset on the last line buffer, and the join
Render(buf, tbl) ==
    LET r == RenderLines(tbl, buf, DefaultStyle, <<>>)
        n == Len(r.buffer)
        closed == IF n > 0
                  THEN [r.buffer EXCEPT ![n] = Append(@, WReset(r.curr))]
                  ELSE r.buffer
    IN  Join(closed, <<WJoin>>)

RECURSIVE Concat(_)
Concat(ss) == IF Len(ss) = 0 THEN <<>> ELSE Head(ss) \o Concat(Tail(ss))

\* the string fmt writes
Text(writes) == Concat([i \in 1..Len(writes) |-> writes[i].text])

NoPanic(op) == [op |-> op, panic |-> FALSE]
Panic(op) == [op |-> op, panic |-> TRUE]

\* a panic ends the program; the bounds keep the grid small
Running == ~last.panic
Fits(buf) == CellCount(buf) <= MaxCells /\ Len(buf) <= MaxLines

Init ==
    /\ buffer = NewBuffer
    /\ styles = NewStyles
    /\ out = <<>>
    /\ last = NoPanic("new")
    /\ arg = None
    /\ ret = None

Push(chunk) ==
    /\ Running
    /\ Fits(PushChars(buffer, chunk, None))
    /\ buffer' = PushChars(buffer, chunk, None)
    /\ styles' = styles
    /\ out' = <<>>
    /\ last' = NoPanic("push")
    /\ UNCHANGED <<arg, ret>>

PushStyled(style, chunk) ==
    /\ Running
    /\ Fits(PushChars(buffer, chunk, Some(HashKey(style))))
    /\ HashKey(style) \in DOMAIN styles => styles[HashKey(style)].refs < MaxRefs
    /\ styles' = Intern(styles, style)
    /\ buffer' = PushChars(buffer, chunk, Some(HashKey(style)))
    /\ out' = <<>>
    /\ last' = NoPanic("push_styled")
    /\ UNCHANGED <<arg, ret>>

\* replace: the checks, then a println of the ranges; nothing is written
Replace(lines, columns, chunk) ==
    /\ Running
    /\ buffer' = buffer
    /\ styles' = styles
    /\ out' = <<>>
    /\ last' = IF ReplaceCheck(buffer, lines, columns) = "ok"
               THEN NoPanic("replace") ELSE Panic("replace")
    /\ UNCHANGED <<arg, ret>>

\* to_string / println!("{}", buffer)
Display ==
    /\ Running
    /\ buffer' = buffer
    /\ styles' = styles
    /\ IF \A l \in 1..Len(buffer) : \A c \in 1..Len(buffer[l]) :
             CanResolve(styles, buffer[l][c])
       THEN /\ out' = Render(buffer, styles)
            /\ last' = NoPanic("fmt")
       ELSE /\ out' = <<>>
            /\ last' = Panic("fmt")
    /\ UNCHANGED <<arg, ret>>

Next ==
    \/ \E chunk \in Texts : Push(chunk)
    \/ \E style \in Styles, chunk \in StyledTexts : PushStyled(style, chunk)
    \/ \E lines \in LineRanges, columns \in ColumnRanges, chunk \in ReplaceTexts :
            Replace(lines, columns, chunk)
    \/ Display

Spec == Init /\ [][Next]_vars

(***************************************************************************)
(* The style table on its own: intern as push_styled does it, and release  *)
(* as section 4.4 of the specification states it over                      *)
(* MappedStyle::decrement (no function of src/ calls decrement): the entry *)
(* is removed when decrement returns true.                                 *)
(***************************************************************************)
Release(tbl, key) ==
    LET d == Decrement(tbl[key])
    IN  IF d.zero
        THEN [k \in DOMAIN tbl \ {key} |-> tbl[k]]
        ELSE [tbl EXCEPT ![key] = d.ms]

Italic == Style(ITALIC, None, None, None)
TableStyles == Styles \cup {DefaultStyle, Italic}
TableKeys == {HashKey(s) : s \in TableStyles}

TableIntern(style) ==
    /\ HashKey(style) \in DOMAIN styles => styles[HashKey(style)].refs < MaxRefs
    /\ styles' = Intern(styles, style)
    /\ last' = NoPanic("intern")
    /\ UNCHANGED <<buffer, out, arg, ret>>

TableRelease(key) ==
    /\ key \in DOMAIN styles
    /\ styles' = Release(styles, key)
    /\ last' = NoPanic("release")
    /\ UNCHANGED <<buffer, out, arg, ret>>

NextTable ==
    \/ \E style \in TableStyles : TableIntern(style)
    \/ \E key \in TableKeys : TableRelease(key)

SpecTable == Init /\ [][NextTable]_vars

(***************************************************************************)
(* Properties                                                              *)
(***************************************************************************)
\* the positions <<line, column>> of the grid, both from 1
Cells(buf) == UNION {{<<l, c>> : c \in 1..Len(buf[l])} : l \in 1..Len(buf)}
CellAt(buf, p) == buf[p[1]][p[2]]
Styled(buf) == {p \in Cells(buf) : IsSome(CellAt(buf, p).style)}

\* C1: every cell whose style is Some(key) has that key in the style table
\* with a reference count of at least 1, and fmt never panics on a key it
\* does not find.
C1_KeysLive ==
    /\ \A p \in Styled(buffer) :
          /\ Unwrap(CellAt(buffer, p).style) \in DOMAIN styles
          /\ styles[Unwrap(CellAt(buffer, p).style)].refs >= 1
    /\ last # Panic("fmt")

\* a grid with a styled cell, after a replace that returned
C1_Witness == last = NoPanic("replace") /\ Styled(buffer) # {}

(***************************************************************************)
(* replace as the specification states it.  ls..le are the lines and       *)
(* cs..ce the columns, from 0, the end not included.                       *)
(***************************************************************************)
\* the ranges the specification accepts
RangeAccepted(buf, ls, le, cs, ce) ==
    /\ ls <= le /\ le <= Len(buf)
    /\ cs <= ce
    /\ ls < Len(buf) /\ ce <= Len(buf[ls + 1])

\* the ranges the specification rejects
RangeRejected(buf, ls, le, cs, ce) ==
    \/ ls >= Len(buf) \/ le > Len(buf)
    \/ ls > le \/ cs > ce
    \/ ls < Len(buf) /\ (cs > Len(buf[ls + 1]) \/ ce > Len(buf[ls + 1]))

\* the cells a replace of at least one line takes out: the first line from
\* cs, the lines between, the last line up to ce
Removed(buf, ls, le, cs, ce) ==
    {p \in Cells(buf) :
        /\ ls + 1 <= p[1] /\ p[1] <= le
        /\ p[1] = ls + 1 => p[2] > cs
        /\ p[1] = le => p[2] <= ce}

\* the grid after a replace of at least one line
Spliced(buf, ls, le, cs, ce, text) ==
    LET prefix == SubSeq(buf[ls + 1], 1, cs)
        suffix == SubSeq(buf[le], ce + 1, Len(buf[le]))
        new == PushChars(<<prefix>>, text, None)
        merged == [new EXCEPT ![Len(new)] = @ \o suffix]
    IN  SubSeq(buf, 1, ls) \o merged \o SubSeq(buf, le + 1, Len(buf))

\* C2: a replace that returns leaves the grid spliced: the first line up to
\* the column start, the text split at its line breaks with style None, the
\* rest of the last line from the column end, the other lines as they were.
C2_ReplaceSplices ==
    [][last' = NoPanic("replace") =>
          \A lines \in LineRanges, columns \in ColumnRanges, chunk \in ReplaceTexts :
              /\ Replace(lines, columns, chunk)
              /\ Start(lines) < End(lines)
              /\ Start(columns) <= End(columns)
              /\ End(columns) <= Len(buffer[End(lines)])
              => buffer' = Spliced(buffer, Start(lines), End(lines),
                                   Start(columns), End(columns), chunk)]_vars

\* C3: a replace that returns has released the style of every cell it took
\* out (the count of its entry is lower, or the entry is gone), and leaves no
\* entry with count 0.
C3_ReplaceReleases ==
    [][last' = NoPanic("replace") =>
          /\ \A k \in DOMAIN styles' : styles'[k].refs > 0
          /\ \A lines \in LineRanges, columns \in ColumnRanges, chunk \in ReplaceTexts :
              /\ Replace(lines, columns, chunk)
              /\ Start(lines) < End(lines)
              /\ Start(columns) <= End(columns)
              /\ End(columns) <= Len(buffer[End(lines)])
              => \A p \in Removed(buffer, Start(lines), End(lines),
                                  Start(columns), End(columns)) \cap Styled(buffer) :
                    LET k == Unwrap(CellAt(buffer, p).style)
                    IN  k \notin DOMAIN styles' \/ styles'[k].refs < styles[k].refs]_vars

\* C4: a replace whose line range names a line at or after the line count,
\* whose column range names a column after the length of the line, or whose
\* start is after its end, fails and leaves the grid and the table as they
\* were.
C4_BadRangeFails ==
    [][last'.op = "replace" =>
          \A lines \in LineRanges, columns \in ColumnRanges, chunk \in ReplaceTexts :
              /\ Replace(lines, columns, chunk)
              /\ RangeRejected(buffer, Start(lines), End(lines),
                               Start(columns), End(columns))
              => last'.panic /\ buffer' = buffer /\ styles' = styles]_vars

\* C5: a replace whose ranges have start <= end, line end <= line count and
\* column end <= length of the line returns.
C5_GoodRangeAccepted ==
    [][last'.op = "replace" =>
          \A lines \in LineRanges, columns \in ColumnRanges, chunk \in ReplaceTexts :
              /\ Replace(lines, columns, chunk)
              /\ RangeAccepted(buffer, Start(lines), End(lines),
                               Start(columns), End(columns))
              => ~last'.panic]_vars

NonBreaks(chunk) == SelectSeq(chunk, LAMBDA c : c # NL)
Breaks(chunk) == Cardinality({i \in 1..Len(chunk) : chunk[i] = NL})

\* the position of the j-th line break; 0 before the first, Len + 1 after the last
BreakAt(chunk, j) ==
    IF j = 0 THEN 0
    ELSE IF j > Breaks(chunk) THEN Len(chunk) + 1
    ELSE CHOOSE i \in 1..Len(chunk) :
            /\ chunk[i] = NL
            /\ Cardinality({m \in 1..i : chunk[m] = NL}) = j

Segment(chunk, j) == SubSeq(chunk, BreakAt(chunk, j) + 1, BreakAt(chunk, j + 1) - 1)

CellsOf(text, style) == [i \in 1..Len(text) |-> Character(style, text[i])]

\* all cells of the grid, line after line
Flat(buf) == Concat(buf)

RefsOf(tbl, k) == IF k \in DOMAIN tbl THEN tbl[k].refs ELSE 0

\* C7: a push_styled raises the count of the entry of the style's key by
\* exactly 1 whatever the text (an absent entry counts 0), leaves the other
\* entries alone, and adds one cell with style Some(key) per character that
\* is not a line break, after the cells there were.
C7_OneIncrementPerCall ==
    [][last'.op = "push_styled" =>
          \A style \in Styles, chunk \in StyledTexts :
              PushStyled(style, chunk) =>
                  LET k == HashKey(style)
                  IN  /\ k \in DOMAIN styles'
                      /\ RefsOf(styles', k) = RefsOf(styles, k) + 1
                      /\ \A j \in (DOMAIN styles \cup DOMAIN styles') \ {k} :
                            RefsOf(styles', j) = RefsOf(styles, j)
                      /\ Flat(buffer') =
                            Flat(buffer) \o CellsOf(NonBreaks(chunk), Some(k))]_vars

\* after a push_styled, an entry that no cell refers to
C7_Witness ==
    /\ last = NoPanic("push_styled")
    /\ \E k \in DOMAIN styles : \A p \in Styled(buffer) : Unwrap(CellAt(buffer, p).style) # k
    /\ Styled(buffer) # {}

\* C8: a push adds one line per line break of the text and appends the other
\* characters in order, with style None, to the line that is last at that
\* point; no cell holds a line break, the cells there were stay where they
\* were, the table is unchanged, and the grid has at least one line in every
\* state.
C8_PushAppends ==
    [][/\ Len(buffer) >= 1 /\ Len(buffer') >= 1
       /\ last'.op = "push" =>
            \A chunk \in Texts :
                Push(chunk) =>
                    LET n == Len(buffer)
                    IN  /\ Len(buffer') = n + Breaks(chunk)
                        /\ \A l \in 1..(n - 1) : buffer'[l] = buffer[l]
                        /\ buffer'[n] = buffer[n] \o CellsOf(Segment(chunk, 0), None)
                        /\ \A j \in 1..Breaks(chunk) :
                              buffer'[n + j] = CellsOf(Segment(chunk, j), None)
                        /\ \A p \in Cells(buffer') : CellAt(buffer', p).character # NL
                        /\ \A p \in Cells(buffer) : CellAt(buffer', p) = CellAt(buffer, p)
                        /\ styles' = styles]_vars

\* after a push, a second line with a plain cell and a styled cell from before
C8_Witness ==
    /\ last = NoPanic("push")
    /\ Len(buffer) = 2
    /\ Styled(buffer) # {}
    /\ \E p \in Cells(buffer) : p[1] = 2 /\ CellAt(buffer, p).style = None

(***************************************************************************)
(* The grid as the text and the run of cells that fmt walks.               *)
(***************************************************************************)
LineText(line) == [i \in 1..Len(line) |-> line[i].character]
GridText(buf) == Join([l \in 1..Len(buf) |-> LineText(buf[l])], <<NL>>)

\* C9: fmt of a grid built by push alone writes the text pushed, line breaks
\* kept, with no escape character in it.
C9_PlainRoundTrip ==
    (last = NoPanic("fmt") /\ Styled(buffer) = {} /\ DOMAIN styles = {})
        => /\ Text(out) = GridText(buffer)
           /\ \A i \in 1..Len(Text(out)) : Text(out)[i] # ESC

\* the cells in order, a cell holding the line break between two lines
Items(buf) == Join(buf, <<Character(None, NL)>>)
IsCell(item) == item.character # NL

\* the style active before item i: that of the last cell before it
ActiveBefore(tbl, items, i) ==
    LET before == {j \in 1..(i - 1) : IsCell(items[j])}
    IN  IF before = {} THEN DefaultStyle
        ELSE Resolve(tbl, items[CHOOSE j \in before : \A m \in before : m <= j])

WritesAt(tbl, items, i) ==
    IF ~IsCell(items[i]) THEN <<WJoin>>
    ELSE IF Resolve(tbl, items[i]) # ActiveBefore(tbl, items, i)
         THEN <<WReset(ActiveBefore(tbl, items, i)), WSet(Resolve(tbl, items[i])),
                WChar(items[i].character)>>
         ELSE <<WChar(items[i].character)>>

\* C10: fmt writes, before a cell, the reset of the style active before it
\* and the set of the cell's style when and only when the two differ (the
\* default style is active before the first cell, the active style carries
\* over a line break), and after the last cell of the last line one reset of
\* the style then active; no two resets are written in a row.
C10_TransitionsOnly ==
    last = NoPanic("fmt") =>
        LET items == Items(buffer)
            n == Len(items)
        IN  /\ out = Concat([i \in 1..n |-> WritesAt(styles, items, i)])
                        \o <<WReset(ActiveBefore(styles, items, n + 1))>>
            /\ \A i \in 1..(Len(out) - 1) :
                  ~(out[i].kind = "reset" /\ out[i + 1].kind = "reset")
            /\ out[Len(out)].kind = "reset"
            /\ Cardinality({i \in 1..Len(out) : out[i].kind = "reset"})
                  = Cardinality({i \in 1..Len(out) : out[i].kind = "set"}) + 1

\* fmt of two lines of one cell each, both of one style
C10_Witness ==
    /\ last = NoPanic("fmt")
    /\ Len(buffer) = 2 /\ Len(buffer[1]) = 1 /\ Len(buffer[2]) = 1
    /\ IsSome(buffer[1][1].style)
    /\ buffer[1][1].style = buffer[2][1].style

(***************************************************************************)
(* Style on its own: ansi, sequence and reset_sequence of one style, for   *)
(* every set of the seven flags, with and without colours and a link.      *)
(***************************************************************************)
FlagSets == 0..(2 * RESET - 1)
StyleColors == {None, Some(RED), Some(Ansi(214)), Some(RGB(0, 128, 255))}
StyleLinks == {None, Some(<<"u">>)}
StyleInputs ==
    {Style(f, fg, bg, link) : f \in FlagSets, fg \in StyleColors,
                              bg \in StyleColors, link \in StyleLinks}

InitStyle ==
    /\ buffer = NewBuffer
    /\ styles = NewStyles
    /\ out = <<>>
    /\ last = NoPanic("new")
    /\ arg \in StyleInputs
    /\ ret = None

\* style.ansi()
AnsiOf ==
    /\ last = NoPanic("new")
    /\ ret' = Some(StyleAnsi(arg))
    /\ last' = NoPanic("ansi")
    /\ UNCHANGED <<buffer, styles, out, arg>>

\* style.sequence()
SequenceOf ==
    /\ last = NoPanic("new")
    /\ ret' = Some(StyleSequence(arg))
    /\ last' = NoPanic("sequence")
    /\ UNCHANGED <<buffer, styles, out, arg>>

\* style.reset_sequence()
ResetSequenceOf ==
    /\ last = NoPanic("new")
    /\ ret' = Some(StyleResetSequence(arg))
    /\ last' = NoPanic("reset_sequence")
    /\ UNCHANGED <<buffer, styles, out, arg>>

NextStyle == AnsiOf \/ SequenceOf \/ ResetSequenceOf

SpecStyle == InitStyle /\ [][NextStyle]_vars

\* C11: sequence of the style with no flags, no foreground, no background
\* and no link is the empty string.
C11_EmptyStyleEmptySequence ==
    (last = NoPanic("sequence") /\ arg = Style(0, None, None, None))
        => Unwrap(ret) = <<>>

\* C12: reset_sequence of a style whose flags contain RESET is ESC[0m,
\* followed by the hyperlink close when a link is set, and nothing else,
\* whatever the colours and the other flags.
C12_ResetIsUniversal ==
    (last = NoPanic("reset_sequence") /\ HasFlag(arg.flags, RESET))
        => Unwrap(ret) = <<ESC, "[", "0", "m">>
                \o (IF IsSome(arg.link) THEN <<ESC, "]", "8", ";", ";", ESC, "\\">>
                    ELSE <<>>)

\* the codes of the flags in the stated order
FlagCodes(flags) ==
    LET code == <<[flag |-> BOLD, code |-> "1"], [flag |-> ITALIC, code |-> "3"],
                  [flag |-> UNDERLINE, code |-> "4"], [flag |-> CROSSED, code |-> "9"],
                  [flag |-> BLINK, code |-> "5"], [flag |-> REVERSED, code |-> "7"]>>
        set == SelectSeq(code, LAMBDA e : HasFlag(flags, e.flag))
    IN  [i \in 1..Len(set) |-> <<set[i].code>>]

\* the codes of a style: those of the flags, then the foreground fragment,
\* then the background fragment
StyleCodes(s) ==
    FlagCodes(s.flags)
        \o (IF IsSome(s.fg) THEN <<Fg(Unwrap(s.fg))>> ELSE <<>>)
        \o (IF IsSome(s.bg) THEN <<Bg(Unwrap(s.bg))>> ELSE <<>>)

\* C13: ansi of a style is the codes of its flags (bold 1, italic 3,
\* underline 4, strikethrough 9, blink 5, reversed 7), its foreground
\* fragment and its background fragment, joined by one semicolon each; it
\* does not start or end with a semicolon and holds no two semicolons in a
\* row, also when the flags hold only RESET.
C13_CodesJoined ==
    last = NoPanic("ansi") =>
        LET a == Unwrap(ret)
        IN  /\ a = Join(StyleCodes(arg), <<";">>)
            /\ Len(a) > 0 => a[1] # ";" /\ a[Len(a)] # ";"
            /\ \A i \in 1..(Len(a) - 1) : ~(a[i] = ";" /\ a[i + 1] = ";")

(***************************************************************************)
(* Color on its own: the constructors from a hex literal, from HSL, HSV    *)
(* and CYMK components, and the hue sector of format_hs_color.  An f32     *)
(* component is written in hundredths (0.5 is 50), a hue in degrees.       *)
(***************************************************************************)
MaxHexLen == 8      \* characters of a hex literal after the "#"
MaxHue == 361       \* the largest hue the constructors are called with

HSL(h, s, l) == [kind |-> "HSL", h |-> h, s |-> s, l |-> l]
HSV(h, s, v) == [kind |-> "HSV", h |-> h, s |-> s, v |-> v]
CYMK(c, y, m, k) == [kind |-> "CYMK", c |-> c, y |-> y, m |-> m, k |-> k]

Ok(v) == [ok |-> TRUE, value |-> v]
Err(e) == [ok |-> FALSE, value |-> e]

\* char::to_digit(16)
LowerDigits == <<"0", "1", "2", "3", "4", "5", "6", "7", "8", "9",
                 "a", "b", "c", "d", "e", "f">>
UpperDigits == <<"0", "1", "2", "3", "4", "5", "6", "7", "8", "9",
                 "A", "B", "C", "D", "E", "F">>
IsHexDigit(c) == \E i \in 1..16 : LowerDigits[i] = c \/ UpperDigits[i] = c
ToDigit(c) == (CHOOSE i \in 1..16 : LowerDigits[i] = c \/ UpperDigits[i] = c) - 1

\* value.strip_prefix("#").unwrap_or(value)
StripPrefix(value) ==
    IF Len(value) > 0 /\ Head(value) = "#" THEN Tail(value) ELSE value

\* value.chars().flat_map(|c| iter::repeat(c).take(2)).collect()
Doubled(value) == [i \in 1..(2 * Len(value)) |-> value[(i + 1) \div 2]]

RECURSIVE SkipZeros(_)
SkipZeros(digits) ==
    IF Len(digits) > 0 /\ Head(digits) = "0" THEN SkipZeros(Tail(digits)) ELSE digits

\* u32::from_str_radix(value, 16).map(u32::to_be_bytes): the four bytes, most
\* significant first, or the error.  The number is kept as its eight hex
\* digits, two to a byte.
FromStrRadix16(value) ==
    LET digits == IF Len(value) > 0 /\ Head(value) = "+" THEN Tail(value) ELSE value
        sig == SkipZeros(digits)
        nib == [i \in 1..8 |->
                   IF i <= 8 - Len(sig) THEN 0 ELSE ToDigit(sig[i - (8 - Len(sig))])]
    IN  IF Len(value) = 0 THEN Err("Empty")
        ELSE IF Len(digits) = 0 THEN Err("InvalidDigit")
        ELSE IF \E i \in 1..Len(digits) : ~IsHexDigit(digits[i]) THEN Err("InvalidDigit")
        ELSE IF Len(sig) > 8 THEN Err("PosOverflow")
        ELSE Ok([i \in 1..4 |-> 16 * nib[2 * i - 1] + nib[2 * i]])

\* impl From<&str> for Color, up to the unwrap: the bytes parsed or the error
ParseHex(text) ==
    LET value == StripPrefix(text)
    IN  FromStrRadix16(IF Len(value) = 3 \/ Len(value) = 4 THEN Doubled(value) ELSE value)

\* Color::RGB { r: bytes[1], g: bytes[2], b: bytes[3] }, the bytes counted from 0
ColorOfBytes(bytes) == RGB(bytes[2], bytes[3], bytes[4])

ColorHsl(h, s, l) ==
    IF s > 100 \/ l > 100 THEN Err("greater than 1.0")
    ELSE IF s < 0 \/ l < 0 THEN Err("less than 0.0")
    ELSE IF h >= 360 THEN Err("hue greater than or equal to 360")
    ELSE Ok(HSL(h, s, l))

ColorHsv(h, s, v) ==
    IF s > 100 \/ v > 100 THEN Err("greater than 1.0")
    ELSE IF s < 0 \/ v < 0 THEN Err("less than 0.0")
    ELSE IF h >= 360 THEN Err("hue greater than or equal to 360")
    ELSE Ok(HSV(h, s, v))

ColorCymk(c, y, m, k) ==
    IF c < 0 \/ y < 0 \/ m < 0 \/ k < 0 THEN Err("less than 0.0")
    ELSE IF c > 100 \/ y > 100 \/ m > 100 \/ k > 100 THEN Err("greater than 1.0")
    ELSE Ok(CYMK(c, y, m, k))

\* the first statement of format_hs_color, for h = hue as f32 / 60.0: which
\* of c, x and 0.0 go to r, g and b, or the panic of the last else.  The
\* arithmetic on c, x and m is not computed.
FormatHsColor(hue) ==
    IF hue > 0 /\ hue < 60 THEN Ok(<<"c", "x", "0">>)
    ELSE IF hue >= 60 /\ hue <= 120 THEN Ok(<<"x", "c", "0">>)
    ELSE IF hue >= 120 /\ hue <= 180 THEN Ok(<<"0", "c", "x">>)
    ELSE IF hue >= 180 /\ hue <= 240 THEN Ok(<<"0", "x", "c">>)
    ELSE IF hue >= 240 /\ hue <= 300 THEN Ok(<<"x", "0", "c">>)
    ELSE IF hue >= 300 /\ hue <= 360 THEN Ok(<<"c", "0", "x">>)
    ELSE Err("panic")

\* the literals: every string of up to MaxHexLen of a lower-case digit, an
\* upper-case digit and a letter that is no digit, bare and after "#", and
\* five literals with a sign or with the digit 0
HexChars == {"a", "F", "g"}
RECURSIVE HexTextsOfLen(_)
HexTextsOfLen(n) ==
    IF n = 0 THEN {<<>>}
    ELSE {Append(t, c) : t \in HexTextsOfLen(n - 1), c \in HexChars}
HexTexts == UNION {HexTextsOfLen(n) : n \in 0..MaxHexLen}
HexInputs ==
    {[kind |-> "str", value |-> t] : t \in HexTexts}
        \cup {[kind |-> "str", value |-> <<"#">> \o t] : t \in HexTexts}
        \cup {[kind |-> "str", value |-> t] :
                 t \in {<<"+">>, <<"+", "a", "F">>, <<"-", "a", "F", "0">>,
                        <<"0", "0", "a">>, <<"#", "0", "a", "0", "F">>}}

\* the components, in hundredths: below, at the ends of, inside and above 0..1
Components == {-50, 0, 50, 100, 150}
Hues == 0..MaxHue
HslInputs == {[kind |-> "hsl", h |-> h, s |-> s, l |-> l] :
                 h \in Hues, s \in Components, l \in Components}
HsvInputs == {[kind |-> "hsv", h |-> h, s |-> s, v |-> v] :
                 h \in Hues, s \in Components, v \in Components}
CymkInputs == {[kind |-> "cymk", c |-> c, y |-> y, m |-> m, k |-> k] :
                  c \in Components, y \in Components, m \in Components,
                  k \in Components}

InitColor ==
    /\ buffer = NewBuffer
    /\ styles = NewStyles
    /\ out = <<>>
    /\ last = NoPanic("new")
    /\ arg \in HexInputs \cup HslInputs \cup HsvInputs \cup CymkInputs
    /\ ret = None

\* Color::from(&str), Color::hex: the unwrap panics on a parse error
FromStr ==
    /\ last = NoPanic("new") /\ arg.kind = "str"
    /\ IF ParseHex(arg.value).ok
       THEN /\ ret' = Some(ColorOfBytes(ParseHex(arg.value).value))
            /\ last' = NoPanic("from_str")
       ELSE /\ ret' = None
            /\ last' = Panic("from_str")
    /\ UNCHANGED <<buffer, styles, out, arg>>

\* Color::hsl
Hsl ==
    /\ last = NoPanic("new") /\ arg.kind = "hsl"
    /\ ret' = Some(ColorHsl(arg.h, arg.s, arg.l))
    /\ last' = NoPanic("hsl")
    /\ UNCHANGED <<buffer, styles, out, arg>>

\* Color::hsv
Hsv ==
    /\ last = NoPanic("new") /\ arg.kind = "hsv"
    /\ ret' = Some(ColorHsv(arg.h, arg.s, arg.v))
    /\ last' = NoPanic("hsv")
    /\ UNCHANGED <<buffer, styles, out, arg>>

\* Color::cymk
Cymk ==
    /\ last = NoPanic("new") /\ arg.kind = "cymk"
    /\ ret' = Some(ColorCymk(arg.c, arg.y, arg.m, arg.k))
    /\ last' = NoPanic("cymk")
    /\ UNCHANGED <<buffer, styles, out, arg>>

\* ansi() of the HSL or HSV colour a constructor returned
HsAnsi ==
    /\ last \in {NoPanic("hsl"), NoPanic("hsv")}
    /\ Unwrap(ret).ok
    /\ last' = IF FormatHsColor(Unwrap(ret).value.h).ok
               THEN NoPanic("hs_ansi") ELSE Panic("hs_ansi")
    /\ out' = IF FormatHsColor(Unwrap(ret).value.h).ok
              THEN FormatHsColor(Unwrap(ret).value.h).value ELSE <<>>
    /\ UNCHANGED <<buffer, styles, arg, ret>>

NextColor == FromStr \/ Hsl \/ Hsv \/ Cymk \/ HsAnsi

SpecColor == InitColor /\ [][NextColor]_vars

\* a literal as the claims read it: its digits are what follows one "#"
HexDigitsOf(text) == StripPrefix(text)
WellFormedHex(text) ==
    /\ Len(HexDigitsOf(text)) \in {3, 4, 6, 8}
    /\ \A i \in 1..Len(HexDigitsOf(text)) : IsHexDigit(HexDigitsOf(text)[i])

InUnit(x) == 0 <= x /\ x <= 100
InRange(a) ==
    CASE a.kind = "hsl" -> a.h < 360 /\ InUnit(a.s) /\ InUnit(a.l)
      [] a.kind = "hsv" -> a.h < 360 /\ InUnit(a.s) /\ InUnit(a.v)
      [] a.kind = "cymk" -> InUnit(a.c) /\ InUnit(a.y) /\ InUnit(a.m) /\ InUnit(a.k)

\* the call returned an error value
IsErr(r) == IsSome(r) /\ "ok" \in DOMAIN Unwrap(r) /\ ~Unwrap(r).ok

\* C14: no constructor of a colour ends the program; hsl, hsv and cymk
\* return an error for a component out of range, and the constructor from a
\* hex literal returns an error for a literal with a character that is no
\* hex digit or with a number of digits other than 3, 4, 6 or 8.
C14_InvalidInputIsAnError ==
    /\ last.op \in {"from_str", "hsl", "hsv", "cymk"} => ~last.panic
    /\ (last.op \in {"hsl", "hsv", "cymk"} /\ ~InRange(arg)) => IsErr(ret)
    /\ (last.op = "from_str" /\ ~WellFormedHex(arg.value)) => IsErr(ret)

\* C15: ansi() of an HSL or HSV colour that hsl or hsv returned, of any hue
\* from 0 to 359, takes one of the six sectors and does not panic; hsl and
\* hsv return an error for a hue of 360 or more.
C15_EveryHueHasASector ==
    /\ last.op = "hs_ansi" =>
          /\ ~last.panic
          /\ out \in {<<"c", "x", "0">>, <<"x", "c", "0">>, <<"0", "c", "x">>,
                      <<"0", "x", "c">>, <<"x", "0", "c">>, <<"c", "0", "x">>}
    /\ (last.op \in {"hsl", "hsv"} /\ arg.h >= 360) => IsErr(ret)

\* the byte two digits stand for
PairAt(digits, i) == 16 * ToDigit(digits[2 * i - 1]) + ToDigit(digits[2 * i])

\* the colour of a well-formed literal: each digit of a 3- or 4-digit form
\* twice, then the first three pairs
HexColor(text) ==
    LET d == HexDigitsOf(text)
        e == IF Len(d) <= 4 THEN Doubled(d) ELSE d
    IN  RGB(PairAt(e, 1), PairAt(e, 2), PairAt(e, 3))

\* C16: the constructor from a hex literal of 3, 4, 6 or 8 digits, with or
\* without "#", returns the RGB colour of the first three pairs of its
\* digits (each digit of a 3- or 4-digit form taken twice), and the same
\* colour for the same digits with and without "#".
C16_HexChannels ==
    (last.op = "from_str" /\ WellFormedHex(arg.value)) =>
        /\ ~last.panic
        /\ Unwrap(ret) = HexColor(arg.value)
        /\ ParseHex(<<"#">> \o HexDigitsOf(arg.value)) = ParseHex(HexDigitsOf(arg.value))

\* C17: the cells a push_styled writes resolve, in the table it leaves, to
\* the style it was called with, and the cells there were resolve to the
\* style they resolved to before, also when the style's key is the key of
\* another style: no two unequal styles share an entry.
C17_CollisionsKeptApart ==
    [][last'.op = "push_styled" =>
          \A style \in Styles, chunk \in StyledTexts :
              PushStyled(style, chunk) =>
                  /\ \A p \in Cells(buffer') \ Cells(buffer) :
                        Resolve(styles', CellAt(buffer', p)) = style
                  /\ \A p \in Cells(buffer) :
                        Resolve(styles', CellAt(buffer', p))
                            = Resolve(styles, CellAt(buffer, p))]_vars

(***************************************************************************)
(* ReplaceRange on its own: start() and end() of one range of each of the  *)
(* seven forms.                                                            *)
(***************************************************************************)
RangeInputs ==
    {Index(n) : n \in Indices}
        \cup {Range(a, b) : a \in Indices, b \in Indices}
        \cup {RangeTo(b) : b \in Indices}
        \cup {RangeFrom(a) : a \in Indices}
        \cup {RangeFull}
        \cup {RangeToInclusive(b) : b \in Indices}
        \cup {RangeInclusive(a, b) : a \in Indices, b \in Indices}

InitRange ==
    /\ buffer = NewBuffer
    /\ styles = NewStyles
    /\ out = <<>>
    /\ last = NoPanic("new")
    /\ arg \in RangeInputs
    /\ ret = None

\* range.start()
StartOf ==
    /\ ret = None
    /\ ret' = Some(Start(arg))
    /\ last' = NoPanic("start")
    /\ UNCHANGED <<buffer, styles, out, arg>>

\* range.end()
EndOf ==
    /\ out = <<>>
    /\ out' = <<End(arg)>>
    /\ last' = NoPanic("end")
    /\ UNCHANGED <<buffer, styles, arg, ret>>

NextRange == StartOf \/ EndOf

SpecRange == InitRange /\ [][NextRange]_vars

\* the indices a range denotes: the single index, or RangeBounds::contains
Contains(r, i) ==
    CASE r.form = "usize" -> i = r.n
      [] r.form = "RangeFull" -> TRUE
      [] r.form = "Range" -> r.start <= i /\ i < r.end
      [] r.form = "RangeTo" -> i < r.end
      [] r.form = "RangeFrom" -> r.start <= i
      [] r.form = "RangeToInclusive" -> i <= r.end
      [] r.form = "RangeInclusive" -> r.start <= i /\ i <= r.end

\* the range a..b that denotes the same indices as a..=b and as the index n
AsRange(r) ==
    CASE r.form = "RangeInclusive" -> Range(r.start, r.end + 1)
      [] r.form = "usize" -> Range(r.n, r.n + 1)
      [] OTHER -> r

\* C18: for a range of any of the seven forms, the indices it denotes are
\* those from start(), included, to end(), not included; a..=b has the start
\* and end of a..(b+1), and the index n those of n..(n+1).
C18_StartInclusiveEndExclusive ==
    (IsSome(ret) /\ out # <<>>) =>
        /\ \A i \in Indices \cup {n + 1 : n \in Indices} :
              Contains(arg, i) <=> (Unwrap(ret) <= i /\ i < out[1])
        /\ Unwrap(ret) = Start(AsRange(arg))
        /\ out[1] = End(AsRange(arg))

====
